---- MODULE Spec2Model ----
(***************************************************************************)
(* Model of the game-library enrichment pipeline: the HowLongToBeat        *)
(* (playtime) pass of src/src/how_long_to_beat.py and the IGDB (catalog)   *)
(* pass of src/src/internet_games_database.py.                             *)
(*                                                                         *)
(* Tables (pandas DataFrames, CSV files) are sequences of records, one     *)
(* record per row, in row order.  A missing value (NaN / NaT / None in a   *)
(* column) is the value NaN.  Dates are whole months; a year is 12 months. *)
(***************************************************************************)
EXTENDS Integers, Sequences, FiniteSets, TLC

\* ------------------------------------------------------------------ bounds
NumGames == 2        \* library records in the pipeline specification
MaxRuns == 2         \* playtime passes in one behaviour
NumIds == 4          \* library ids of the tables the upsert is applied to
MaxResults == 2      \* games one HowLongToBeat search returns
MaxCatalog == 3      \* rows of the catalog snapshot igdb_games.csv
MaxReportCatalog == 2   \* rows of the catalog snapshot behind a catalog report
MaxGroup == 3        \* rows of a group handed to a select_best_*_match
MaxUpstream == 2     \* records of a catalog endpoint upstream
MaxTime == 3         \* created_at and updated_at timestamps run from 1 to this
MaxPool == 2         \* rows of the name column given to igdb_library_fuzzy_matching

\* --------------------------------------------------------------- constants
SixMonths == 6       \* relativedelta(months=6)
LowSimilarityIgdb == 95   \* similarity_score < 95
LowSimilarityHltb == 75   \* max_similarity < 0.75, similarity held in hundredths
MaxAttempts == 2     \* range(2) of the retry loop

NaN == 0 - 1

\* a release_year that int() cannot convert
Unparseable == 0 - 2
Absent == [exists |-> FALSE, rows |-> <<>>]     \* a CSV file that does not exist
File(df) == [exists |-> TRUE, rows |-> df]      \* a CSV file holding the table df

LibIds == 1..NumGames

\* ----------------------------------------------------------------- helpers
SeqToSet(s) == {s[i] : i \in DOMAIN s}

RECURSIVE FlatMap(_, _)
FlatMap(F(_), s) ==
    IF s = <<>> THEN <<>> ELSE F(Head(s)) \o FlatMap(F, Tail(s))

RECURSIVE SortedSeq(_)
\* the elements of a finite set of integers in ascending order
SortedSeq(S) ==
    IF S = {} THEN <<>>
    ELSE LET m == CHOOSE x \in S : \A y \in S : x <= y
         IN  <<m>> \o SortedSeq(S \ {m})

Abs(x) == IF x < 0 THEN 0 - x ELSE x

Keys(df) == {df[i].library_id : i \in DOMAIN df}

Raised(e) == [exc |-> e, value |-> <<>>]
Returned(v) == [exc |-> "none", value |-> v]

\* ------------------------------------------------------------ library data
\* .dt.year of the release date
ReleaseYear(d) == IF d = NaN THEN NaN ELSE d \div 12

LibraryRow(i, d) ==
    [id |-> i, release_date |-> d, library_release_year |-> ReleaseYear(d)]

\* ------------------------------------------------------- HowLongToBeat data
GameA == [game_name |-> "A", release_world |-> 0, similarity |-> 100, main_story |-> 10]
GameB == [game_name |-> "B", release_world |-> 1, similarity |-> 100, main_story |-> 20]
GameC == [game_name |-> "C", release_world |-> 1, similarity |-> 60, main_story |-> 30]

\* what one call of HowLongToBeat().search does
RaiseOutcome == [kind |-> "raise", results |-> <<>>]
NoneOutcome == [kind |-> "none", results |-> <<>>]
ResultsOutcome(l) == [kind |-> "results", results |-> l]

Outcomes(lists) == {RaiseOutcome, NoneOutcome} \cup {ResultsOutcome(l) : l \in lists}

NoCall == [fn |-> "none"]

VARIABLES
    library,          \* playnite_library.csv: the cleaned library table
    hltb,             \* HowLongToBeat: per library id, the outcome of each search call
    now,              \* datetime.now(), in months
    hltb_processed,   \* hltb_playtimes.csv, or Absent
    hltb_raw,         \* the most recently written hltb_raw_*.csv, or Absent
    pc,               \* where the playtime pass stands
    full_run,         \* the full_run argument of the running extract_hltb_data
    game_list,        \* game_list_df
    idx,              \* position of the for loop in game_list_df
    attempt,          \* attempts already made for the current record
    results_list,     \* results_list of the current record
    all_hltb_data,    \* all_hltb_data
    searches,         \* per position of game_list_df, the outcomes of the calls made
    error,            \* the exception that ended the last function call, or "none"
    table_before,     \* hltb_playtimes.csv as it was when the pass began
    call              \* a function called on its own: its arguments and its result

vars == <<library, hltb, now, hltb_processed, hltb_raw, pc, full_run, game_list,
          idx, attempt, results_list, all_hltb_data, searches, error, table_before,
          call>>

loop_vars == <<game_list, idx, attempt, results_list, all_hltb_data, searches>>

\* ------------------------------------------------------- extract_hltb_data
\* library_df.merge(hltb_proc_df[['library_id','hltb_extract_date']], how='left',
\*                  left_on='id', right_on='library_id')
MergeExtractDate(library_df, hltb_proc_df) ==
    FlatMap(LAMBDA r :
              LET ms == SelectSeq(hltb_proc_df, LAMBDA p : p.library_id = r.id)
                  Joined(lid, date) ==
                      [id |-> r.id, release_date |-> r.release_date,
                       library_release_year |-> r.library_release_year,
                       library_id |-> lid, hltb_extract_date |-> date]
              IN  IF ms = <<>> THEN <<Joined(NaN, NaN)>>
                  ELSE [k \in 1..Len(ms) |->
                          Joined(ms[k].library_id, ms[k].hltb_extract_date)],
            library_df)

\* a row filter that lets every row through
IsAlwaysSelected(r, t) == TRUE

\* the row filter of the incremental selection
IsNewlyAddedOrReleased(r, t) ==
    \/ r.hltb_extract_date = NaN
    \/ (r.release_date # NaN /\ r.release_date >= t - SixMonths)

IncrementalSelection(library_df, hltb_proc_df, t) ==
    SelectSeq(MergeExtractDate(library_df, hltb_proc_df),
              LAMBDA r : IsNewlyAddedOrReleased(r, t))

\* the row_data appended for one element of results_list
RowData(element, row) ==
    [library_id |-> row.id, game |-> element.game_name,
     release_year |-> element.release_world, similarity |-> element.similarity,
     hltb_main |-> element.main_story]

WithExtractDate(r, t) ==
    [library_id |-> r.library_id, game |-> r.game, release_year |-> r.release_year,
     similarity |-> r.similarity, hltb_main |-> r.hltb_main, hltb_extract_date |-> t]

\* a faulty variant: the retry loop without its break
RetryLoopNoBreak(n, res) == n < MaxAttempts

\* whether the retry loop makes another call
RetryLoopContinues(n, res) == n < MaxAttempts /\ res.kind # "results"

RunTime(t) == t + 2 * SixMonths

\* extract_hltb_data up to the for loop
ExtractBegin(full) ==
    /\ pc \in {"idle", "done"}
    /\ now < MaxRuns * 2 * SixMonths
    /\ now' = RunTime(now)
    /\ full_run' = full
    /\ table_before' = hltb_processed
    /\ IF ~full /\ ~hltb_processed.exists
       THEN /\ error' = "UnboundLocalError"     \* hltb_proc_df was never assigned
            /\ pc' = "done"
            /\ game_list' = <<>>
       ELSE /\ error' = "none"
            /\ pc' = "searching"
            /\ game_list' = IF full THEN library
                            ELSE IncrementalSelection(library, hltb_processed.rows, now')
    /\ idx' = 1
    /\ attempt' = 0
    /\ results_list' = NoneOutcome
    /\ all_hltb_data' = <<>>
    /\ searches' = <<>>
    /\ UNCHANGED <<call, library, hltb, hltb_processed, hltb_raw>>

\* one pass of the retry loop's body: a call of HowLongToBeat().search
SearchAttempt(outcome) ==
    /\ pc = "searching"
    /\ idx <= Len(game_list)
    /\ RetryLoopContinues(attempt, results_list)
    /\ attempt' = attempt + 1
    /\ results_list' = IF outcome.kind = "results" THEN outcome ELSE NoneOutcome
    /\ searches' = IF attempt = 0 THEN Append(searches, <<outcome.kind>>)
                   ELSE [searches EXCEPT ![idx] = Append(@, outcome.kind)]
    /\ UNCHANGED <<call, library, hltb, now, hltb_processed, hltb_raw, pc, full_run,
                   game_list, idx, all_hltb_data, error, table_before>>

\* the rest of the for loop's body, after the retry loop
NextRecord ==
    /\ pc = "searching"
    /\ idx <= Len(game_list)
    /\ ~RetryLoopContinues(attempt, results_list)
    /\ all_hltb_data' =
          IF results_list.kind # "results" THEN all_hltb_data
          ELSE all_hltb_data \o
               [k \in 1..Len(results_list.results) |->
                    RowData(results_list.results[k], game_list[idx])]
    /\ idx' = idx + 1
    /\ attempt' = 0
    /\ results_list' = NoneOutcome
    /\ UNCHANGED <<call, library, hltb, now, hltb_processed, hltb_raw, pc, full_run,
                   game_list, searches, error, table_before>>

\* a faulty variant: a full run that leaves hltb_playtimes.csv in place
KeepProcessedFile(full, file) == file

\* if full_run == True: Path(hltb_processed_file).unlink(missing_ok=True)
UnlinkOnFullRun(full, file) == IF full THEN Absent ELSE file

\* extract_hltb_data after the for loop
ExtractFinish ==
    /\ pc = "searching"
    /\ idx > Len(game_list)
    /\ hltb_raw' = File([k \in 1..Len(all_hltb_data) |->
                              WithExtractDate(all_hltb_data[k], now)])
    /\ hltb_processed' = UnlinkOnFullRun(full_run, hltb_processed)
    /\ pc' = "extracted"
    /\ UNCHANGED <<call, library, hltb, now, full_run, loop_vars, error, table_before>>

\* ------------------------------------------------ filter_and_match_hltb_data
MaxOf(S) == CHOOSE x \in S : \A y \in S : y <= x

\* hltb_raw_df.groupby("library_id")["similarity"].transform("max"), for one row
GroupMaxSimilarity(hltb_raw_df, r) ==
    MaxOf({hltb_raw_df[i].similarity :
             i \in {j \in DOMAIN hltb_raw_df : hltb_raw_df[j].library_id = r.library_id}})

\* a faulty variant: candidates under the report's quality threshold are dropped
KeepMaxSimilarityAboveThreshold(hltb_raw_df) ==
    SelectSeq(hltb_raw_df, LAMBDA r : /\ r.similarity = GroupMaxSimilarity(hltb_raw_df, r)
                                      /\ r.similarity >= LowSimilarityHltb)

\* the rows that carry the maximum similarity of their library_id
KeepMaxSimilarity(hltb_raw_df) ==
    SelectSeq(hltb_raw_df, LAMBDA r : r.similarity = GroupMaxSimilarity(hltb_raw_df, r))

RECURSIVE DropDuplicated(_)
\* df[~df.duplicated()]: the first occurrence of every row, in order
DropDuplicated(df) ==
    IF df = <<>> THEN <<>>
    ELSE LET n == Len(df)
             front == DropDuplicated(SubSeq(df, 1, n - 1))
         IN  IF \E i \in 1..(n - 1) : df[i] = df[n] THEN front
             ELSE Append(front, df[n])

MergedRow(h, l) ==
    [library_id |-> h.library_id, game |-> h.game, release_year |-> h.release_year,
     similarity |-> h.similarity, hltb_main |-> h.hltb_main,
     hltb_extract_date |-> h.hltb_extract_date,
     id |-> l.id, library_release_year |-> l.library_release_year]

NullHltb ==
    [library_id |-> NaN, game |-> "NaN", release_year |-> NaN, similarity |-> NaN,
     hltb_main |-> NaN, hltb_extract_date |-> NaN]

\* hltb_filtered_df.merge(library_df[["id","name","library_release_year"]],
\*                        how="right", left_on="library_id", right_on="id")
RightMergeLibrary(hltb_filtered_df, library_df) ==
    FlatMap(LAMBDA l :
              LET ms == SelectSeq(hltb_filtered_df, LAMBDA h : h.library_id = l.id)
              IN  IF ms = <<>> THEN <<MergedRow(NullHltb, l)>>
                  ELSE [k \in 1..Len(ms) |-> MergedRow(ms[k], l)],
            library_df)

\* abs(release_year - library_year), NaN when either is missing
YearDiff(r, library_year) ==
    IF r.release_year = NaN \/ library_year = NaN THEN NaN
    ELSE Abs(r.release_year - library_year)

\* a faulty variant: the last position holding the least value
IdxMinLast(diffs) ==
    LET known == {i \in DOMAIN diffs : diffs[i] # NaN}
    IN  CHOOSE i \in known :
            /\ \A j \in known : diffs[i] <= diffs[j]
            /\ \A j \in known : diffs[j] = diffs[i] => j <= i

\* Series.idxmin: the first position holding the least value that is not NaN
IdxMin(diffs) ==
    LET known == {i \in DOMAIN diffs : diffs[i] # NaN}
    IN  CHOOSE i \in known :
            /\ \A j \in known : diffs[i] <= diffs[j]
            /\ \A j \in known : diffs[j] = diffs[i] => i <= j

select_best_hltb_match(group) ==
    IF Len(group) = 1 THEN Returned(group)
    ELSE LET library_year == group[1].library_release_year
             year_diff == [i \in DOMAIN group |-> YearDiff(group[i], library_year)]
             exact_matches == SelectSeq(group, LAMBDA r : YearDiff(r, library_year) = 0)
         IN  IF Len(exact_matches) > 0 THEN Returned(<<exact_matches[1]>>)
             ELSE IF \A i \in DOMAIN group : year_diff[i] = NaN
                  THEN Raised("KeyError")     \* idxmin of an all-NaN column
                  ELSE Returned(<<group[IdxMin(year_diff)]>>)

\* the groups of groupby("library_id"): keys ascending, NaN keys dropped
GroupKeys(df) == SortedSeq(Keys(df) \ {NaN})

GroupRows(df, k) == SelectSeq(df, LAMBDA r : r.library_id = k)

filter_and_match_hltb_data(hltb_raw_df, library_df) ==
    LET hltb_filtered_df == DropDuplicated(KeepMaxSimilarity(hltb_raw_df))
        hltb_with_library_df == RightMergeLibrary(hltb_filtered_df, library_df)
        keys == GroupKeys(hltb_with_library_df)
        best == [i \in DOMAIN keys |->
                    select_best_hltb_match(GroupRows(hltb_with_library_df, keys[i]))]
    IN  IF \E i \in DOMAIN best : best[i].exc # "none"
        THEN Raised("KeyError")
        ELSE Returned(FlatMap(LAMBDA b : b.value, best))

\* ----------------------------------- create_comprehensive_matching_report
\* min(hltb_years, key=lambda x: abs(x - library_year)): the first item is kept
\* until a later one has a smaller key; no comparison with a NaN key succeeds
RECURSIVE PyMinYear(_, _, _, _)
PyMinYear(hltb_years, library_year, best, i) ==
    IF i > Len(hltb_years) THEN best
    ELSE LET key_new == IF hltb_years[i] = NaN \/ library_year = NaN THEN NaN
                        ELSE Abs(hltb_years[i] - library_year)
             key_best == IF best = NaN \/ library_year = NaN THEN NaN
                         ELSE Abs(best - library_year)
         IN  IF key_new # NaN /\ key_best # NaN /\ key_new < key_best
             THEN PyMinYear(hltb_years, library_year, hltb_years[i], i + 1)
             ELSE PyMinYear(hltb_years, library_year, best, i + 1)

\* the library ids of a column in order of first appearance: Series.unique()
RECURSIVE UniqueIds(_)
UniqueIds(df) ==
    IF df = <<>> THEN <<>>
    ELSE LET front == UniqueIds(SubSeq(df, 1, Len(df) - 1))
             last == df[Len(df)].library_id
         IN  IF last \in SeqToSet(front) THEN front ELSE Append(front, last)

\* a faulty variant: every record of the library is listed
NoHltbRecordsAll(hltb_with_library_df, library_df) ==
    [k \in DOMAIN library_df |->
        [library_id |-> library_df[k].id,
         library_year |-> library_df[k].library_release_year]]

\* the entries of no_hltb_records: library ids missing from the merged data
NoHltbRecords(hltb_with_library_df, library_df) ==
    LET merged_library_ids == Keys(hltb_with_library_df) \ {NaN}
        all_library_ids == {library_df[i].id : i \in DOMAIN library_df}
        missing_library_ids == SortedSeq(all_library_ids \ merged_library_ids)
    IN  [k \in DOMAIN missing_library_ids |->
            LET game_info == SelectSeq(library_df,
                                       LAMBDA l : l.id = missing_library_ids[k])[1]
            IN  [library_id |-> missing_library_ids[k],
                 library_year |-> game_info.library_release_year]]

\* the low_similarity_games entry of one group, if it has one
LowSimilarityEntry(group) ==
    LET max_similarity == MaxOf({group[i].similarity : i \in DOMAIN group})
        idxmax == CHOOSE i \in DOMAIN group :
                      /\ group[i].similarity = max_similarity
                      /\ \A j \in 1..(i - 1) : group[j].similarity # max_similarity
    IN  IF max_similarity < LowSimilarityHltb
        THEN <<[library_id |-> group[1].library_id,
                library_year |-> group[1].library_release_year,
                max_similarity |-> max_similarity,
                hltb_match |-> group[idxmax].game]>>
        ELSE <<>>

\* the year_mismatches entry of one group, if it has one
YearMismatchEntry(group) ==
    LET library_year == group[1].library_release_year
        hltb_years == [i \in DOMAIN group |-> group[i].release_year]
    IN  IF Len(group) > 1
           /\ ~(library_year # NaN /\ library_year \in SeqToSet(hltb_years))
        THEN <<[library_id |-> group[1].library_id,
                library_year |-> library_year,
                hltb_year |-> hltb_years,
                closest_hltb_year |-> PyMinYear(hltb_years, library_year,
                                                hltb_years[1], 2)]>>
        ELSE <<>>

\* the three lists and the summary the report logs
create_comprehensive_matching_report(hltb_with_library_df, library_df) ==
    LET no_hltb_records == NoHltbRecords(hltb_with_library_df, library_df)
        ids == SelectSeq(UniqueIds(hltb_with_library_df), LAMBDA i : i # NaN)
        groups == [k \in DOMAIN ids |-> GroupRows(hltb_with_library_df, ids[k])]
        low_similarity_games == FlatMap(LowSimilarityEntry, groups)
        year_mismatches == FlatMap(YearMismatchEntry, groups)
    IN  [no_hltb_records |-> no_hltb_records,
         low_similarity_games |-> low_similarity_games,
         year_mismatches |-> year_mismatches,
         summary |->
            [total_library_games |-> Len(library_df),
             successful_matches |-> Len(library_df) - Len(no_hltb_records)
                                        - Len(low_similarity_games),
             no_hltb_records |-> Len(no_hltb_records),
             low_similarity |-> Len(low_similarity_games),
             year_mismatches |-> Len(year_mismatches)]]

\* the library rows the report of transform_hltb_data is about: with a table on
\* disk, the records that have no row in it
ReportLibrary(library_df, processed_file) ==
    IF processed_file.exists
    THEN SelectSeq(library_df, LAMBDA l : l.id \notin Keys(processed_file.rows))
    ELSE library_df

\* the merged data the report of transform_hltb_data is built from
ReportMergedData(hltb_raw_df, report_library) ==
    RightMergeLibrary(DropDuplicated(KeepMaxSimilarity(hltb_raw_df)), report_library)

NoReport == [written |-> FALSE]

\* step 4 of transform_hltb_data: the report, skipped for an empty library; a list
\* that is not empty is written with to_csv, which fails when the file cannot be
\* written
ReportStep(hltb_raw_df, library_df, processed_file, write_fails) ==
    LET report_library == ReportLibrary(library_df, processed_file)
        report == create_comprehensive_matching_report(
                      ReportMergedData(hltb_raw_df, report_library), report_library)
    IN  IF Len(report_library) = 0 THEN Returned(NoReport)
        ELSE IF write_fails /\ (report.no_hltb_records # <<>>
                                \/ report.low_similarity_games # <<>>
                                \/ report.year_mismatches # <<>>)
        THEN Raised("OSError")
        ELSE Returned(report)

\* --------------------------------------------------------- transform_hltb_data
\* load_latest_hltb_raw_data, then the column lookups a file of no rows fails:
\* a raw file written from an empty all_hltb_data has the one column hltb_extract_date
LoadRaw(file) ==
    IF ~file.exists THEN Raised("FileNotFoundError")
    ELSE IF file.rows = <<>> THEN Raised("KeyError")
    ELSE Returned(file.rows)

\* the columns written to hltb_playtimes.csv
ProcessedColumns(r) ==
    [library_id |-> r.library_id, library_release_year |-> r.library_release_year,
     hltb_main |-> r.hltb_main, hltb_extract_date |-> r.hltb_extract_date]

\* a faulty variant: the persisted rows are not filtered before the concat
UpsertKeepingStale(hltb_processed_df, hltb_matched_df) ==
    hltb_processed_df \o hltb_matched_df

\* a faulty variant: the matched batch replaces the persisted rows
UpsertBatchOnly(hltb_processed_df, hltb_matched_df) == hltb_matched_df

\* pd.concat([processed[~processed.index.isin(matched.index)], matched])
Upsert(hltb_processed_df, hltb_matched_df) ==
    SelectSeq(hltb_processed_df, LAMBDA p : p.library_id \notin Keys(hltb_matched_df))
        \o hltb_matched_df

\* a faulty variant: the matched batch is written only into an existing table
WriteProcessedOnlyIfExists(file, hltb_matched_df) ==
    IF file.exists
    THEN File([i \in DOMAIN Upsert(file.rows, hltb_matched_df) |->
                  ProcessedColumns(Upsert(file.rows, hltb_matched_df)[i])])
    ELSE File(<<>>)

\* the table written to hltb_playtimes.csv
WriteProcessed(file, hltb_matched_df) ==
    LET df == IF file.exists THEN Upsert(file.rows, hltb_matched_df) ELSE hltb_matched_df
    IN  File([i \in DOMAIN df |-> ProcessedColumns(df[i])])

\* transform_hltb_data(raw file, library file, processed file): the written
\* table, or the exception raised before anything is written
transform_hltb_data(raw_file, library_df, processed_file, write_fails) ==
    LET hltb_raw_df == LoadRaw(raw_file)
    IN  IF hltb_raw_df.exc # "none" THEN hltb_raw_df
        ELSE LET hltb_matched_df == filter_and_match_hltb_data(hltb_raw_df.value, library_df)
                 report == ReportStep(hltb_raw_df.value, library_df, processed_file,
                                      write_fails)
             IN  IF hltb_matched_df.exc # "none" THEN hltb_matched_df
                 ELSE IF report.exc # "none" THEN report
                 ELSE Returned(WriteProcessed(processed_file, hltb_matched_df.value))

\* transform_hltb_data as run_data_pipeline calls it; writing a report file may fail
Transform ==
    /\ pc = "extracted"
    /\ \E write_fails \in BOOLEAN :
          LET out == transform_hltb_data(hltb_raw, library, hltb_processed, write_fails)
          IN  /\ error' = out.exc
              /\ hltb_processed' = IF out.exc = "none" THEN out.value ELSE hltb_processed
    /\ pc' = "done"
    /\ UNCHANGED <<call, library, hltb, now, hltb_raw, full_run, loop_vars, table_before>>

\* ------------------------------------------------------- the playtime pipeline
RelDates == {NaN, 0, SixMonths, 3 * SixMonths}

Libraries ==
    {[i \in LibIds |-> LibraryRow(i, d[i])] : d \in [LibIds -> RelDates]}

\* what HowLongToBeat does on the first and on the second call for a record
HltbBehaviours ==
    { <<RaiseOutcome, RaiseOutcome>>,
      <<NoneOutcome, ResultsOutcome(<<GameA>>)>>,
      <<ResultsOutcome(<<>>), RaiseOutcome>>,
      <<RaiseOutcome, ResultsOutcome(<<GameC, GameA, GameB>>)>> }

Init ==
    /\ library \in Libraries
    /\ hltb \in [LibIds -> HltbBehaviours]
    /\ now = 0
    /\ hltb_processed = Absent
    /\ hltb_raw = Absent
    /\ pc = "idle"
    /\ full_run = FALSE
    /\ game_list = <<>>
    /\ idx = 1
    /\ attempt = 0
    /\ results_list = NoneOutcome
    /\ all_hltb_data = <<>>
    /\ searches = <<>>
    /\ error = "none"
    /\ table_before = Absent
    /\ call = NoCall

\* the call, answered by the service as it behaves for the current record
Search ==
    /\ pc = "searching"
    /\ idx <= Len(game_list)
    /\ attempt < MaxAttempts
    /\ SearchAttempt(hltb[game_list[idx].id][attempt + 1])

Next ==
    \/ \E full \in BOOLEAN : ExtractBegin(full)
    \/ Search
    \/ NextRecord
    \/ ExtractFinish
    \/ Transform

Spec == Init /\ [][Next]_vars

\* ------------------------------------------- one extract_hltb_data call alone
\* a table written by earlier passes for the library ids in S
PersistedFor(S, library_df) ==
    LET ids == SortedSeq(S)
    IN  [k \in DOMAIN ids |->
            [library_id |-> ids[k],
             library_release_year |-> library_df[ids[k]].library_release_year,
             hltb_main |-> GameA.main_story, hltb_extract_date |-> 0]]

HltbResponses == {<<>>, <<GameA, GameB>>}

InitExtract ==
    /\ library \in Libraries
    /\ hltb = [i \in LibIds |-> <<RaiseOutcome, RaiseOutcome>>]
    /\ now = 0
    /\ hltb_processed \in
          {Absent} \cup {File(PersistedFor(S, library)) : S \in SUBSET LibIds}
    /\ hltb_raw = Absent
    /\ pc = "idle"
    /\ full_run = FALSE
    /\ game_list = <<>>
    /\ idx = 1
    /\ attempt = 0
    /\ results_list = NoneOutcome
    /\ all_hltb_data = <<>>
    /\ searches = <<>>
    /\ error = "none"
    /\ table_before = Absent
    /\ call = NoCall

\* the call, answered in any way the service can
SearchAny == \E o \in Outcomes(HltbResponses) : SearchAttempt(o)

NextExtract ==
    \/ \E full \in BOOLEAN : ExtractBegin(full)
    \/ SearchAny
    \/ NextRecord
    \/ ExtractFinish

SpecExtract == InitExtract /\ [][NextExtract]_vars

\* ------------------------------- one playtime pass over any persisted table
\* the time of the last pass the run bound lets begin
LastPass == (MaxRuns - 1) * 2 * SixMonths

\* libraries whose records were all released at the time of the pass, or have no
\* release date
PassLibraries ==
    {[i \in LibIds |-> LibraryRow(i, d)] : d \in {NaN, RunTime(LastPass)}}

InitPass ==
    /\ library \in PassLibraries
    /\ hltb = [i \in LibIds |-> <<RaiseOutcome, RaiseOutcome>>]
    /\ now = LastPass
    /\ hltb_processed \in
          {Absent} \cup {File(PersistedFor(S, library)) : S \in SUBSET LibIds}
    /\ hltb_raw = Absent
    /\ pc = "idle"
    /\ full_run = FALSE
    /\ game_list = <<>>
    /\ idx = 1
    /\ attempt = 0
    /\ results_list = NoneOutcome
    /\ all_hltb_data = <<>>
    /\ searches = <<>>
    /\ error = "none"
    /\ table_before = Absent
    /\ call = NoCall

NextPass ==
    \/ \E full \in BOOLEAN : ExtractBegin(full)
    \/ SearchAny
    \/ NextRecord
    \/ ExtractFinish
    \/ Transform

SpecPass == InitPass /\ [][NextPass]_vars

\* the pipeline's variables while a function is called on its own
PipelineUnused ==
    /\ library = <<>>
    /\ hltb = <<>>
    /\ now = 0
    /\ hltb_processed = Absent
    /\ hltb_raw = Absent
    /\ pc = "unused"
    /\ full_run = FALSE
    /\ game_list = <<>>
    /\ idx = 1
    /\ attempt = 0
    /\ results_list = NoneOutcome
    /\ all_hltb_data = <<>>
    /\ searches = <<>>
    /\ error = "none"
    /\ table_before = Absent

pipeline_vars ==
    <<library, hltb, now, hltb_processed, hltb_raw, pc, full_run, game_list,
      idx, attempt, results_list, all_hltb_data, searches, error, table_before>>

\* ---------------------------------------- the upsert of transform_hltb_data alone
UpsertIds == 1..NumIds

\* the sequences of distinct library ids: the key column of a persisted table
DistinctIdSeqs ==
    UNION {{s \in [1..n -> UpsertIds] : \A a, b \in 1..n : a # b => s[a] # s[b]} :
             n \in 0..NumIds}

\* a row of hltb_playtimes.csv written by an earlier pass
OldRow(i) ==
    [library_id |-> i, library_release_year |-> 0,
     hltb_main |-> GameA.main_story, hltb_extract_date |-> 0]

\* a row of the batch filter_and_match_hltb_data returns for this pass
FreshRow(i, g) ==
    MergedRow(WithExtractDate(RowData(g, [id |-> i]), RunTime(0)),
              [id |-> i, library_release_year |-> 0])

\* the matched batches: one row per library id of a set, ids ascending
FreshBatches ==
    UNION {{[k \in DOMAIN SortedSeq(S) |-> FreshRow(SortedSeq(S)[k], g[SortedSeq(S)[k]])] :
              g \in [S -> {GameA, GameB}]} : S \in SUBSET UpsertIds}

InitUpsert ==
    /\ PipelineUnused
    /\ \E ids \in DistinctIdSeqs, file_exists \in BOOLEAN, fresh \in FreshBatches :
          /\ (~file_exists => ids = <<>>)
          /\ call = [fn |-> "upsert", stage |-> 0,
                     processed_file |-> IF file_exists
                                        THEN File([k \in DOMAIN ids |-> OldRow(ids[k])])
                                        ELSE Absent,
                     hltb_matched_df |-> fresh,
                     once |-> Absent, twice |-> Absent]

\* lines 235-258 run on the persisted file and the matched batch
UpsertOnce ==
    /\ call.fn = "upsert" /\ call.stage = 0
    /\ call' = [call EXCEPT !.stage = 1,
                            !.once = WriteProcessed(call.processed_file, call.hltb_matched_df)]
    /\ UNCHANGED pipeline_vars

\* the same lines run again, on the file just written and the same batch
UpsertTwice ==
    /\ call.fn = "upsert" /\ call.stage = 1
    /\ call' = [call EXCEPT !.stage = 2,
                            !.twice = WriteProcessed(call.once, call.hltb_matched_df)]
    /\ UNCHANGED pipeline_vars

NextUpsert == UpsertOnce \/ UpsertTwice

SpecUpsert == InitUpsert /\ [][NextUpsert]_vars

\* ------------------------------------------ filter_and_match_hltb_data alone
GameD == [game_name |-> "D", release_world |-> NaN, similarity |-> 100, main_story |-> 40]

\* what a search can return for one record: up to MaxResults distinct games, or
\* the same game twice
ResultLists ==
    UNION {{s \in [1..n -> {GameA, GameB, GameC, GameD}] :
              \A a, b \in 1..n : a # b => s[a] # s[b]} : n \in 0..MaxResults}
    \cup {<<GameA, GameA>>}

\* the raw file extract_hltb_data writes when it finds found[i] for library id i
RawBatch(library_df, found) ==
    FlatMap(LAMBDA l :
              [k \in DOMAIN found[l.id] |->
                  WithExtractDate(RowData(found[l.id][k], l), RunTime(0))],
            library_df)

\* libraries whose records all carry the same release date
MatchLibraries ==
    {[i \in LibIds |-> LibraryRow(i, d)] : d \in {NaN, 0, 3 * SixMonths}}

InitMatch ==
    /\ PipelineUnused
    /\ \E library_df \in MatchLibraries, found \in [LibIds -> ResultLists] :
          call = [fn |-> "filter_and_match_hltb_data", stage |-> 0,
                  hltb_raw_df |-> RawBatch(library_df, found),
                  library_df |-> library_df,
                  out |-> Returned(<<>>)]

FilterAndMatch ==
    /\ call.fn = "filter_and_match_hltb_data" /\ call.stage = 0
    /\ call' = [call EXCEPT !.stage = 1,
                            !.out = filter_and_match_hltb_data(call.hltb_raw_df,
                                                               call.library_df)]
    /\ UNCHANGED pipeline_vars

NextMatch == FilterAndMatch

SpecMatch == InitMatch /\ [][NextMatch]_vars

\* ------------------------------------------ filter_and_match_igdb_data alone
\* a row's value in a column, NaN when the table has no such column
RowGet(r, column) == IF column \in DOMAIN r THEN r[column] ELSE NaN

\* pd.to_datetime(first_release_date).dt.year: the number is read as nanoseconds
\* since 1970, so every date falls in the first year
DatetimeYear(d) == 0

\* the rows of igdb_games.csv: catalog id, name, release date, category and the
\* number of missing values in its other columns
IgdbEntries ==
    [name : {"X", "Y", "NaN"}, first_release_date : {NaN, 1}, category : {0, 1},
     other_nans : {0}]

IgdbRow(n, e) ==
    [id |-> n, name |-> e.name, first_release_date |-> e.first_release_date,
     category |-> e.category, other_nans |-> e.other_nans]

IgdbTables ==
    UNION {{[k \in 1..n |-> IgdbRow(k, es[k])] : es \in [1..n -> IgdbEntries]} :
             n \in 0..MaxCatalog}

NullIgdb ==
    [id |-> NaN, name |-> "NaN", first_release_date |-> NaN, category |-> NaN,
     other_nans |-> 0]

\* a row of result: the match row, its library row and a catalog row
IgdbMergedRow(m, l, g) ==
    [library_id |-> m.library_id, igdb_name |-> m.igdb_name,
     similarity_score |-> m.similarity_score,
     release_date |-> l.release_date, library_release_year |-> l.library_release_year,
     id |-> g.id, name_igdb |-> g.name, first_release_date |-> g.first_release_date,
     category |-> g.category, other_nans |-> g.other_nans]

\* group.isna().sum(axis=1) for one row
NanCount(r) ==
    Cardinality({c \in {"library_id", "similarity_score", "release_date",
                        "library_release_year", "id", "first_release_date", "category"} :
                   r[c] = NaN})
    + Cardinality({c \in {"igdb_name", "name_igdb"} : r[c] = "NaN"})
    + (IF RowGet(r, "release_year") = NaN /\ "release_year" \in DOMAIN r THEN 1 ELSE 0)
    + r.other_nans

\* a faulty variant: the year is not looked at
YearStepSkipped(group) == group

\* the year step: the rows within a year of the library year, when the library
\* year is known and converts, and some row is
YearStep(group) ==
    LET library_year == RowGet(group[1], "release_year")
        year_matches ==
            SelectSeq(group, LAMBDA r :
                /\ r.first_release_date # NaN
                /\ Abs(DatetimeYear(r.first_release_date) - library_year) <= 1)
    IN  IF library_year # NaN /\ library_year # Unparseable /\ Len(year_matches) > 0
        THEN year_matches ELSE group

\* a faulty variant: the category is not looked at
CategoryStepSkipped(group) == group

\* the category step: the main games among several rows, when there is one
CategoryStep(group) ==
    LET main_games == SelectSeq(group, LAMBDA r : r.category = 0)
    IN  IF Len(group) > 1 /\ Len(main_games) > 0 THEN main_games ELSE group

\* a faulty variant: the first row whatever it lacks
CompletenessStepFirst(group) == group[1]

\* the completeness step: of several rows the first with the fewest NaN fields
CompletenessStep(group) ==
    LET nan_counts == [i \in DOMAIN group |-> NanCount(group[i])]
    IN  IF Len(group) > 1 THEN group[IdxMin(nan_counts)] ELSE group[1]

select_best_igdb_match(group) ==
    IF Len(group) = 1 THEN group[1]
    ELSE CompletenessStep(CategoryStep(YearStep(group)))

\* library_df_with_matches.merge(igdb_df, left_on='igdb_name', right_on='name',
\* how='left'): a missing key matches the missing keys of the other side
MergeIgdb(library_df_with_matches, igdb_df) ==
    FlatMap(LAMBDA lm :
              LET gs == SelectSeq(igdb_df, LAMBDA g : g.name = lm.m.igdb_name)
              IN  IF gs = <<>> THEN <<IgdbMergedRow(lm.m, lm.l, NullIgdb)>>
                  ELSE [k \in DOMAIN gs |-> IgdbMergedRow(lm.m, lm.l, gs[k])],
            library_df_with_matches)

NullLibrary == [id |-> NaN, release_date |-> NaN, library_release_year |-> NaN]

\* match_df.merge(library_df.rename(columns={'id': 'library_id'}), how='left')
MergeMatchLibrary(match_df, library_df) ==
    FlatMap(LAMBDA m :
              LET ls == SelectSeq(library_df, LAMBDA l : l.id = m.library_id)
              IN  IF ls = <<>> THEN <<[m |-> m, l |-> NullLibrary]>>
                  ELSE [k \in DOMAIN ls |-> [m |-> m, l |-> ls[k]]],
            match_df)

\* the igdb_with_library of filter_and_match_igdb_data
IgdbWithLibrary(library_df, igdb_df, match_df) ==
    LET result == MergeIgdb(MergeMatchLibrary(match_df, library_df), igdb_df)
        matched_rows == SelectSeq(result, LAMBDA r : r.igdb_name # "NaN")
        unmatched_rows == SelectSeq(result, LAMBDA r : r.igdb_name = "NaN")
        keys == GroupKeys(matched_rows)
        deduplicated_matches ==
            [i \in DOMAIN keys |-> select_best_igdb_match(GroupRows(matched_rows, keys[i]))]
    IN  IF Len(matched_rows) > 0 THEN deduplicated_matches \o unmatched_rows
        ELSE result

\* library_df.merge(id_matches, on='id')
LibraryWithIgdbIds(library_df, igdb_with_library) ==
    FlatMap(LAMBDA l :
              LET ms == SelectSeq(igdb_with_library, LAMBDA r : r.library_id = l.id)
              IN  [k \in DOMAIN ms |->
                      [id |-> l.id, release_date |-> l.release_date,
                       library_release_year |-> l.library_release_year,
                       igdb_game_id |-> ms[k].id]],
            library_df)

filter_and_match_igdb_data(library_df, igdb_df, match_df) ==
    LET igdb_with_library == IgdbWithLibrary(library_df, igdb_df, match_df)
    IN  [library_df |-> LibraryWithIgdbIds(library_df, igdb_with_library),
         igdb_with_library |-> igdb_with_library]

\* the names igdb_library_fuzzy_matching can record for a library record: a name
\* of the catalog that is not missing, or none
MatchTables(library_df, igdb_df) ==
    LET names == {igdb_df[k].name : k \in DOMAIN igdb_df} \ {"NaN"}
    IN  {[k \in DOMAIN library_df |->
            [library_id |-> library_df[k].id, igdb_name |-> pick[k],
             similarity_score |-> IF pick[k] = "NaN" THEN 0 ELSE 100]] :
         pick \in [DOMAIN library_df -> names \cup {"NaN"}]}

IgdbLibrary == [i \in LibIds |-> LibraryRow(i, 0)]

InitIgdb ==
    /\ PipelineUnused
    /\ \E igdb_df \in IgdbTables :
          \E match_df \in MatchTables(IgdbLibrary, igdb_df) :
              call = [fn |-> "filter_and_match_igdb_data", stage |-> 0,
                      library_df |-> IgdbLibrary, igdb_df |-> igdb_df,
                      match_df |-> match_df,
                      out |-> [library_df |-> <<>>, igdb_with_library |-> <<>>]]

FilterAndMatchIgdb ==
    /\ call.fn = "filter_and_match_igdb_data" /\ call.stage = 0
    /\ call' = [call EXCEPT !.stage = 1,
                            !.out = filter_and_match_igdb_data(call.library_df,
                                                               call.igdb_df, call.match_df)]
    /\ UNCHANGED pipeline_vars

NextIgdb == FilterAndMatchIgdb

SpecIgdb == InitIgdb /\ [][NextIgdb]_vars

\* ------------------------------ create_comprehensive_igdb_matching_report
\* the entries of no_igdb_records: library ids missing from the merged data
NoIgdbRecords(igdb_with_library, library_df) ==
    LET merged_library_ids == Keys(igdb_with_library) \ {NaN}
        all_library_ids == {library_df[i].id : i \in DOMAIN library_df}
        missing_library_ids == SortedSeq(all_library_ids \ merged_library_ids)
    IN  [k \in DOMAIN missing_library_ids |-> [library_id |-> missing_library_ids[k]]]

\* a variant: a group without a matched name is not listed
LowSimilarityIgdbEntryMatchedOnly(group) ==
    LET similarity_score == group[1].similarity_score
    IN  IF group[1].igdb_name # "NaN" /\ similarity_score < LowSimilarityIgdb
        THEN <<[library_id |-> group[1].library_id,
                similarity_score |-> similarity_score,
                igdb_match |-> group[1].igdb_name]>>
        ELSE <<>>

\* the low_similarity_games entry of one group, if it has one
LowSimilarityIgdbEntry(group) ==
    LET similarity_score == group[1].similarity_score
    IN  IF similarity_score # NaN /\ similarity_score < LowSimilarityIgdb
        THEN <<[library_id |-> group[1].library_id,
                similarity_score |-> similarity_score,
                igdb_match |-> group[1].igdb_name]>>
        ELSE <<>>

\* the year_mismatches entry of one group, if it has one
YearMismatchIgdbEntry(group) ==
    LET library_year == RowGet(group[1], "release_year")
        igdb_release_date == group[1].first_release_date
    IN  IF library_year # NaN /\ igdb_release_date # NaN
           /\ Abs(DatetimeYear(igdb_release_date) - library_year) > 1
        THEN <<[library_id |-> group[1].library_id,
                library_year |-> library_year,
                igdb_year |-> DatetimeYear(igdb_release_date)]>>
        ELSE <<>>

\* the category_analysis entry of one group, if it has one
CategoryEntry(group) ==
    IF group[1].igdb_name # "NaN"
    THEN <<[library_id |-> group[1].library_id, igdb_match |-> group[1].igdb_name,
            category |-> group[1].category]>>
    ELSE <<>>

\* the four lists and the summary the report logs
create_comprehensive_igdb_matching_report(igdb_with_library, library_df, match_df) ==
    LET no_igdb_records == NoIgdbRecords(igdb_with_library, library_df)
        ids == SelectSeq(UniqueIds(igdb_with_library), LAMBDA i : i # NaN)
        groups == [k \in DOMAIN ids |-> GroupRows(igdb_with_library, ids[k])]
        low_similarity_games == FlatMap(LowSimilarityIgdbEntry, groups)
        year_mismatches == FlatMap(YearMismatchIgdbEntry, groups)
    IN  [no_igdb_records |-> no_igdb_records,
         low_similarity_games |-> low_similarity_games,
         year_mismatches |-> year_mismatches,
         category_analysis |-> FlatMap(CategoryEntry, groups),
         summary |->
            [total_library_games |-> Len(library_df),
             matched_games |-> Len(SelectSeq(match_df, LAMBDA m : m.igdb_name # "NaN")),
             high_confidence_matches |->
                 Len(SelectSeq(match_df, LAMBDA m : m.igdb_name # "NaN"
                                                    /\ m.similarity_score >= LowSimilarityIgdb)),
             no_igdb_records |-> Len(no_igdb_records),
             low_similarity |-> Len(low_similarity_games),
             year_mismatches |-> Len(year_mismatches)]]

\* ------------------------------------------------------- the two reports alone
\* what the searches of an extract found for one record
ReportResponses ==
    {<<>>, <<GameC>>, <<GameA, GameB>>, <<GameB, GameD>>, <<GameC, GameA>>}

\* the report of transform_hltb_data is called for a library that is not empty
InitReportHltb ==
    \E library_df \in MatchLibraries, found \in [LibIds -> ReportResponses] :
      \E processed_file \in {Absent} \cup
                          {File(PersistedFor(S, library_df)) : S \in SUBSET LibIds} :
        LET report_library == ReportLibrary(library_df, processed_file)
        IN  /\ Len(report_library) > 0
            /\ call = [fn |-> "create_comprehensive_matching_report", stage |-> 0,
                       hltb_with_library_df |->
                           ReportMergedData(RawBatch(library_df, found), report_library),
                       library_df |-> report_library,
                       report |-> NoReport]

\* the catalog snapshots and the match tables the catalog report is checked with:
\* an accepted match scores 50 or more, a record without one scores less
ReportCatalogs == {t \in IgdbTables : Len(t) <= MaxReportCatalog}

ReportMatchTables(library_df, igdb_df) ==
    LET names == {igdb_df[k].name : k \in DOMAIN igdb_df} \ {"NaN"}
    IN  {[k \in DOMAIN library_df |->
            [library_id |-> library_df[k].id, igdb_name |-> pick[k],
             similarity_score |-> IF pick[k] = "NaN" THEN low[k] ELSE high[k]]] :
         pick \in [DOMAIN library_df -> names \cup {"NaN"}],
         low \in [DOMAIN library_df -> {0, 30}],
         high \in [DOMAIN library_df -> {60, 100}]}

InitReportIgdb ==
    \E igdb_df \in ReportCatalogs :
        \E match_df \in ReportMatchTables(IgdbLibrary, igdb_df) :
            call = [fn |-> "create_comprehensive_igdb_matching_report", stage |-> 0,
                    igdb_with_library |->
                        filter_and_match_igdb_data(IgdbLibrary, igdb_df,
                                                   match_df).igdb_with_library,
                    library_df |-> IgdbLibrary,
                    match_df |-> match_df,
                    report |-> NoReport]

InitReport == PipelineUnused /\ (InitReportHltb \/ InitReportIgdb)

ReportHltb ==
    /\ call.fn = "create_comprehensive_matching_report" /\ call.stage = 0
    /\ call' = [call EXCEPT
                  !.stage = 1,
                  !.report = create_comprehensive_matching_report(
                                 call.hltb_with_library_df, call.library_df)]
    /\ UNCHANGED pipeline_vars

ReportIgdb ==
    /\ call.fn = "create_comprehensive_igdb_matching_report" /\ call.stage = 0
    /\ call' = [call EXCEPT
                  !.stage = 1,
                  !.report = create_comprehensive_igdb_matching_report(
                                 call.igdb_with_library, call.library_df, call.match_df)]
    /\ UNCHANGED pipeline_vars

NextReport == ReportHltb \/ ReportIgdb

SpecReport == InitReport /\ [][NextReport]_vars

\* ------------------------------------------------------ run_data_pipeline
\* One try block holds the three passes; its handler logs and the run ends.
\* extracts_csv: the extracts folder holds a raw CSV; the *_written fields tell
\* which pass wrote its output in this run.
InitPipeline ==
    /\ PipelineUnused
    /\ \E lib \in BOOLEAN, hl \in BOOLEAN, ig \in BOOLEAN, skip \in BOOLEAN,
          csv \in BOOLEAN :
          call = [fn |-> "run_data_pipeline", step |-> "library",
                  library |-> lib, hltb |-> hl, igdb |-> ig, skip_igdb_api |-> skip,
                  extracts_csv |-> csv,
                  library_written |-> FALSE, hltb_raw_written |-> FALSE,
                  hltb_written |-> FALSE, igdb_written |-> FALSE,
                  complete |-> FALSE, exception |-> "none"]

\* the handler of the try block: the exception is logged and nothing else runs
PipelineFailed(exception) == [call EXCEPT !.step = "end", !.exception = exception]

\* if library: extract_library_data and transform_library_data
LibraryPass ==
    /\ call.fn = "run_data_pipeline" /\ call.step = "library"
    /\ call' = [call EXCEPT !.step = "hltb_extract",
                            !.library_written = call.library]
    /\ UNCHANGED pipeline_vars

\* if hltb: extract_hltb_data, which writes a raw CSV or raises
HltbExtractStep ==
    /\ call.fn = "run_data_pipeline" /\ call.step = "hltb_extract"
    /\ \E raises \in BOOLEAN :
          call' = IF ~call.hltb THEN [call EXCEPT !.step = "igdb"]
                  ELSE IF raises THEN PipelineFailed("UnboundLocalError")
                  ELSE [call EXCEPT !.step = "hltb_transform",
                                    !.extracts_csv = TRUE,
                                    !.hltb_raw_written = TRUE]
    /\ UNCHANGED pipeline_vars

\* the extracts folder is emptied from outside between the two steps of the pass
ExtractsFolderEmptied ==
    /\ call.fn = "run_data_pipeline" /\ call.step = "hltb_transform"
    /\ call.extracts_csv
    /\ call' = [call EXCEPT !.extracts_csv = FALSE]
    /\ UNCHANGED pipeline_vars

\* transform_hltb_data: load_latest_hltb_raw_data raises when no CSV is found
HltbTransformStep ==
    /\ call.fn = "run_data_pipeline" /\ call.step = "hltb_transform"
    /\ call' = IF call.extracts_csv
               THEN [call EXCEPT !.step = "igdb", !.hltb_written = TRUE]
               ELSE PipelineFailed("FileNotFoundError")
    /\ UNCHANGED pipeline_vars

\* if igdb: update the snapshot unless skipped, match, copy to processed
IgdbPass ==
    /\ call.fn = "run_data_pipeline" /\ call.step = "igdb"
    /\ call' = [call EXCEPT !.step = "end", !.igdb_written = call.igdb,
                            !.complete = TRUE]
    /\ UNCHANGED pipeline_vars

NextPipeline ==
    \/ LibraryPass
    \/ HltbExtractStep
    \/ ExtractsFolderEmptied
    \/ HltbTransformStep
    \/ IgdbPass

SpecPipeline == InitPipeline /\ [][NextPipeline]_vars

\* ------------------------------------------- the two select_best_*_match alone
\* the groups of hltb_with_library_df: rows of one library id in iteration
\* order, told apart by the game they name
GameNames == [k \in 1..(MaxGroup + 1) |-> k]

HltbGroup(years, library_year) ==
    [k \in DOMAIN years |->
        [library_id |-> 1, game |-> GameNames[k], release_year |-> years[k],
         similarity |-> 100, hltb_main |-> 10, hltb_extract_date |-> 0,
         id |-> 1, library_release_year |-> library_year]]

\* the groups of matched_rows: the catalog rows sharing the matched name of one
\* library record; columns is "release_year" when the table has such a column
IgdbGroupEntries ==
    [name : {"X"}, first_release_date : {NaN, 0, 3 * 12}, category : {0, 1},
     other_nans : {0, 1}]

IgdbGroupRow(k, e, library_date, column) ==
    LET row == IgdbMergedRow([library_id |-> 1, igdb_name |-> "X", similarity_score |-> 100],
                             LibraryRow(1, library_date), IgdbRow(k, e))
    IN  IF ~column.present THEN row
        ELSE [c \in DOMAIN row \cup {"release_year"} |->
                 IF c = "release_year" THEN column.release_year ELSE row[c]]

\* the table has no release_year column, or one with this value for the record
ReleaseYearColumns ==
    {[present |-> FALSE, release_year |-> NaN]}
    \cup [present : {TRUE}, release_year : {NaN, Unparseable, 0, 3}]

InitSelectHltb ==
    \E n \in 1..MaxGroup :
        \E years \in [1..n -> {NaN, 0, 1, 2}], library_year \in {NaN, 0, 1, 2} :
            call = [fn |-> "select_best_hltb_match", stage |-> 0,
                    group |-> HltbGroup(years, library_year),
                    out |-> Returned(<<>>)]

InitSelectIgdb ==
    \E n \in 1..MaxGroup :
        \E es \in [1..n -> IgdbGroupEntries], library_date \in {NaN, 0},
           column \in ReleaseYearColumns :
            call = [fn |-> "select_best_igdb_match", stage |-> 0,
                    group |-> [k \in 1..n |->
                                  IgdbGroupRow(k, es[k], library_date, column)],
                    out |-> Returned(<<>>)]

InitSelect == PipelineUnused /\ (InitSelectHltb \/ InitSelectIgdb)

SelectHltb ==
    /\ call.fn = "select_best_hltb_match" /\ call.stage = 0
    /\ call' = [call EXCEPT !.stage = 1, !.out = select_best_hltb_match(call.group)]
    /\ UNCHANGED pipeline_vars

SelectIgdb ==
    /\ call.fn = "select_best_igdb_match" /\ call.stage = 0
    /\ call' = [call EXCEPT !.stage = 1,
                            !.out = Returned(<<select_best_igdb_match(call.group)>>)]
    /\ UNCHANGED pipeline_vars

NextSelect == SelectHltb \/ SelectIgdb

SpecSelect == InitSelect /\ [][NextSelect]_vars

\* ---------------------------------------------- extract_and_update_igdb_data
\* a record of an endpoint; data stands for the columns an update rewrites
EndpointRow(i, created_at, updated_at) ==
    [id |-> i, created_at |-> created_at, updated_at |-> updated_at, data |-> updated_at]

UpstreamIds == 1..MaxUpstream

Timestamps == 1..MaxTime

\* execute_igdb_query with `where <column> > <ts>`: the matching records by id
execute_igdb_query(upstream, column, ts) ==
    SelectSeq(upstream, LAMBDA r : r[column] > ts)

\* endpoint_df[column].max()
ColumnMax(endpoint_df, column) ==
    MaxOf({endpoint_df[k][column] : k \in DOMAIN endpoint_df})

\* extract_igdb_data_new: the file with the records created since its newest one
extract_igdb_data_new(upstream, endpoint_df) ==
    LET max_create_ts == ColumnMax(endpoint_df, "created_at")
        new_data == execute_igdb_query(upstream, "created_at", max_create_ts)
    IN  IF Len(new_data) = 0 THEN endpoint_df ELSE endpoint_df \o new_data

\* endpoint_df.update(update_df): rows with the id of an update row take its values
UpdateRows(endpoint_df, update_df) ==
    [k \in DOMAIN endpoint_df |->
        LET us == SelectSeq(update_df, LAMBDA u : u.id = endpoint_df[k].id)
        IN  IF us = <<>> THEN endpoint_df[k] ELSE us[Len(us)]]

\* update_igdb_data: the file with the records updated since its newest update
update_igdb_data(upstream, endpoint_df) ==
    LET max_update_ts == ColumnMax(endpoint_df, "updated_at")
        update_data == execute_igdb_query(upstream, "updated_at", max_update_ts)
    IN  IF Len(update_data) = 0 THEN endpoint_df
        ELSE UpdateRows(endpoint_df, update_data)

\* the endpoint upstream and an endpoint file that an earlier sync wrote: some of
\* the records, each as it was at or after its creation
InitSync ==
    /\ PipelineUnused
    /\ \E created \in [UpstreamIds -> Timestamps], updated \in [UpstreamIds -> Timestamps],
          local \in [UpstreamIds -> Timestamps \cup {NaN}] :
          LET upstream == [i \in UpstreamIds |-> EndpointRow(i, created[i], updated[i])]
              file == FlatMap(LAMBDA r : IF local[r.id] = NaN THEN <<>>
                                         ELSE <<EndpointRow(r.id, r.created_at, local[r.id])>>,
                              upstream)
          IN  /\ \A i \in UpstreamIds :
                    /\ created[i] <= updated[i]
                    /\ local[i] # NaN => (created[i] <= local[i] /\ local[i] <= updated[i])
              /\ Len(file) > 0
              /\ call = [fn |-> "extract_and_update_igdb_data", step |-> "new",
                         upstream |-> upstream, file_before |-> file, endpoint_df |-> file]

ExtractNew ==
    /\ call.fn = "extract_and_update_igdb_data" /\ call.step = "new"
    /\ call' = [call EXCEPT !.step = "update",
                            !.endpoint_df = extract_igdb_data_new(call.upstream,
                                                                  call.endpoint_df)]
    /\ UNCHANGED pipeline_vars

UpdateData ==
    /\ call.fn = "extract_and_update_igdb_data" /\ call.step = "update"
    /\ call' = [call EXCEPT !.step = "done",
                            !.endpoint_df = update_igdb_data(call.upstream,
                                                             call.endpoint_df)]
    /\ UNCHANGED pipeline_vars

NextSync == ExtractNew \/ UpdateData

SpecSync == InitSync /\ [][NextSync]_vars

\* ------------------------------------------ igdb_library_fuzzy_matching alone
\* a game name: a string of characters, or a missing value
Name(chars) == [isna |-> FALSE, chars |-> chars]
NaName == [isna |-> TRUE, chars |-> <<>>]

\* str.lower() of one character
Lower(c) == CASE c = "A" -> "a" [] c = "B" -> "b" [] c = "C" -> "c" [] OTHER -> c

\* str.strip() of a string
RECURSIVE Strip(_)
Strip(s) ==
    IF s = <<>> THEN s
    ELSE IF Head(s) = " " THEN Strip(Tail(s))
    ELSE IF s[Len(s)] = " " THEN Strip(SubSeq(s, 1, Len(s) - 1))
    ELSE s

\* fuzzywuzzy's default processor: characters that are no letters or digits
\* become blanks, the string is lowercased and stripped
FullProcess(s) ==
    Strip([i \in DOMAIN s |-> IF s[i] = "!" THEN " " ELSE Lower(s[i])])

\* the number of matching characters of two strings
RECURSIVE MatchingChars(_, _)
MatchingChars(a, b) ==
    IF a = <<>> \/ b = <<>> THEN 0
    ELSE IF Head(a) = Head(b) THEN 1 + MatchingChars(Tail(a), Tail(b))
    ELSE LET x == MatchingChars(Tail(a), b)
             y == MatchingChars(a, Tail(b))
         IN  IF x >= y THEN x ELSE y

\* fuzz.ratio of two processed strings: 100 for equal strings, 0 when one is
\* empty, else 2 * matches / total length as a rounded percentage
Ratio(s1, s2) ==
    IF s1 = s2 THEN 100
    ELSE IF s1 = <<>> \/ s2 = <<>> THEN 0
    ELSE LET total == Len(s1) + Len(s2)
         IN  (200 * MatchingChars(s1, s2) + total \div 2) \div total

\* igdb_df['name'].dropna().unique().tolist()
RECURSIVE DropNaUnique(_)
DropNaUnique(names) ==
    IF names = <<>> THEN <<>>
    ELSE LET rest == DropNaUnique(SubSeq(names, 1, Len(names) - 1))
             last == names[Len(names)]
         IN  IF last.isna \/ last \in SeqToSet(rest) THEN rest ELSE Append(rest, last)

\* the names that start with the letter the query starts with
FirstLetterFilter(game_name, igdb_games_unique) ==
    LET first_letter == IF game_name.chars # <<>> THEN Lower(game_name.chars[1]) ELSE ""
    IN  SelectSeq(igdb_games_unique,
                  LAMBDA g : g.chars # <<>> /\ Lower(g.chars[1]) = first_letter)

\* a faulty variant: no fall back to the full list
FilteredCandidatesNoFallback(game_name, igdb_games_unique) ==
    FirstLetterFilter(game_name, igdb_games_unique)

\* filtered_candidates as handed to process.extractOne
FilteredCandidates(game_name, igdb_games_unique) ==
    LET filtered == FirstLetterFilter(game_name, igdb_games_unique)
    IN  IF filtered = <<>> THEN igdb_games_unique ELSE filtered

NoBestMatch == [found |-> FALSE, choice |-> NaName, score |-> 0]

\* process.extractOne(query, choices, scorer=fuzz.ratio): the first choice with
\* the highest score, or None when there is no choice
extractOne(query, choices) ==
    IF choices = <<>> THEN NoBestMatch
    ELSE LET score == [i \in DOMAIN choices |->
                          Ratio(FullProcess(query.chars), FullProcess(choices[i].chars))]
             best == CHOOSE i \in DOMAIN choices :
                        /\ \A j \in DOMAIN choices : score[j] <= score[i]
                        /\ \A j \in 1..(i - 1) : score[j] < score[i]
         IN  [found |-> TRUE, choice |-> choices[best], score |-> score[best]]

\* faulty variants of the acceptance test
AcceptsAboveOnly(best_match, threshold) ==
    best_match.found /\ best_match.score > threshold

AcceptsUpTo(best_match, threshold) ==
    best_match.found /\ best_match.score <= threshold

\* if best_match and best_match[1] >= threshold
Accepts(best_match, threshold) ==
    best_match.found /\ best_match.score >= threshold

\* the entry appended to matches for one library record
MatchEntry(row, igdb_games_unique, threshold) ==
    IF row.name.isna
    THEN [library_id |-> row.id, library_name |-> row.name,
          igdb_name |-> NaName, similarity_score |-> 0]
    ELSE LET best_match == extractOne(row.name,
                                      FilteredCandidates(row.name, igdb_games_unique))
         IN  IF Accepts(best_match, threshold)
             THEN [library_id |-> row.id, library_name |-> row.name,
                   igdb_name |-> best_match.choice,
                   similarity_score |-> best_match.score]
             ELSE [library_id |-> row.id, library_name |-> row.name,
                   igdb_name |-> NaName,
                   similarity_score |-> IF best_match.found THEN best_match.score ELSE 0]

igdb_library_fuzzy_matching(library_df, igdb_names, threshold) ==
    LET igdb_games_unique == DropNaUnique(igdb_names)
    IN  [k \in DOMAIN library_df |-> MatchEntry(library_df[k], igdb_games_unique, threshold)]

NotScored == [called |-> FALSE, choices |-> <<>>]

\* per library record, the choices process.extractOne was called with, if it was
ScorerCalls(library_df, igdb_names) ==
    [k \in DOMAIN library_df |->
        IF library_df[k].name.isna THEN NotScored
        ELSE [called |-> TRUE,
              choices |-> FilteredCandidates(library_df[k].name, DropNaUnique(igdb_names))]]

\* a faulty variant: an empty field is read as an empty string
ReadCsvNameKeepingEmpty(field) == field

\* pd.read_csv of a name column: an empty field is read as a missing value
ReadCsvName(field) == IF field.chars = <<>> THEN NaName ELSE field

\* the name fields of playnite_library.csv and of igdb_games.csv
LibraryNames ==
    {Name(<<>>), Name(<<"A", "b">>), Name(<<"b", "a">>), Name(<<"c">>)}

IgdbNames ==
    {Name(<<>>), Name(<<"a", "b">>), Name(<<"a", "a">>), Name(<<"B", "a">>),
     Name(<<"b">>), Name(<<"!">>)}

Thresholds == {0, 50, 51, 100}

NamedLibraries == [LibIds -> LibraryNames]

NamePools == UNION {[1..n -> IgdbNames] : n \in 0..MaxPool}

InitFuzzy ==
    /\ PipelineUnused
    /\ \E names \in NamedLibraries, igdb_names \in NamePools, threshold \in Thresholds :
          call = [fn |-> "igdb_library_fuzzy_matching", stage |-> 0,
                  library_file |-> [i \in LibIds |-> [id |-> i, name |-> names[i]]],
                  igdb_file |-> igdb_names,
                  library_df |-> <<>>, igdb_names |-> <<>>,
                  threshold |-> threshold, match_df |-> <<>>, scored |-> <<>>,
                  threshold2 |-> threshold, match_df2 |-> <<>>]

\* the two tables are read and igdb_library_fuzzy_matching is applied to them
FuzzyMatch ==
    /\ call.fn = "igdb_library_fuzzy_matching" /\ call.stage = 0
    /\ LET library_cleaned ==
               [k \in DOMAIN call.library_file |->
                   [id |-> call.library_file[k].id,
                    name |-> ReadCsvName(call.library_file[k].name)]]
           igdb_names == [k \in DOMAIN call.igdb_file |-> ReadCsvName(call.igdb_file[k])]
       IN  call' = [call EXCEPT
                      !.stage = 1,
                      !.library_df = library_cleaned,
                      !.igdb_names = igdb_names,
                      !.match_df = igdb_library_fuzzy_matching(library_cleaned, igdb_names,
                                                               call.threshold),
                      !.scored = ScorerCalls(library_cleaned, igdb_names)]
    /\ UNCHANGED pipeline_vars

\* the same call with another threshold
FuzzyMatchAgain(threshold) ==
    /\ call.fn = "igdb_library_fuzzy_matching" /\ call.stage = 1
    /\ call' = [call EXCEPT
                  !.stage = 2,
                  !.threshold2 = threshold,
                  !.match_df2 = igdb_library_fuzzy_matching(call.library_df,
                                                            call.igdb_names, threshold)]
    /\ UNCHANGED pipeline_vars

NextFuzzy ==
    \/ FuzzyMatch
    \/ \E threshold \in Thresholds : FuzzyMatchAgain(threshold)

SpecFuzzy == InitFuzzy /\ [][NextFuzzy]_vars

\* ===================================================================== claims
LibraryIds == {library[i].id : i \in DOMAIN library}

HasRow(df, i) == \E k \in DOMAIN df : df[k].library_id = i

RowOf(df, i) == df[CHOOSE k \in DOMAIN df : df[k].library_id = i]

\* the positions of game_list_df holding library id i
PositionsOf(i) == {k \in DOMAIN game_list : game_list[k].id = i}

\* library id i was looked up in the running (or last) extract
LookedUp(i) == \E k \in PositionsOf(i) : k \in DOMAIN searches /\ Len(searches[k]) >= 1

\* C2: hltb_playtimes.csv never holds two rows with the same library_id,
\* whatever passes (full or incremental) have run since there was no table.
C2_OneRowPerLibraryId ==
    \A i, j \in DOMAIN hltb_processed.rows :
        i # j => hltb_processed.rows[i].library_id # hltb_processed.rows[j].library_id

\* an incremental pass has upserted, into a table of several rows, the refreshed
\* row of a library id for which the raw batch held several candidates
C2_Witness ==
    /\ pc = "done" /\ error = "none" /\ ~full_run
    /\ table_before.exists
    /\ Len(hltb_processed.rows) >= 2
    /\ \E i \in Keys(table_before.rows) :
          /\ LookedUp(i)
          /\ \E a, b \in DOMAIN hltb_raw.rows :
                a # b /\ hltb_raw.rows[a].library_id = i /\ hltb_raw.rows[b].library_id = i

\* C5: in an incremental extract over an existing table, a library
\* record is looked up if and only if it has no persisted row or its release
\* date lies within the 6 months before the run time.
C5_LookedUpIffNewOrReleasedInLastSixMonths ==
    (pc = "extracted" /\ ~full_run) =>
        \A k \in DOMAIN library :
            LookedUp(library[k].id) <=>
                \/ ~HasRow(hltb_processed.rows, library[k].id)
                \/ /\ library[k].release_date # NaN
                   /\ now - SixMonths <= library[k].release_date
                   /\ library[k].release_date <= now

\* C6: extract_hltb_data called with full_run=False while hltb_playtimes.csv does
\* not exist raises nothing, and looks up every library record.
C6_FirstIncrementalRunLooksUpAll ==
    (pc # "idle" /\ ~full_run /\ ~table_before.exists) =>
        /\ error = "none"
        /\ pc = "extracted" => \A i \in LibraryIds : LookedUp(i)

Failed(kinds) == \A n \in DOMAIN kinds : kinds[n] \in {"raise", "none"}

\* C7: a selected record is searched at most twice, a second time only when the
\* first call raised or returned None, and exactly then; a record both of whose
\* calls failed adds no raw rows, and the extract still reaches its end having
\* searched every selected record.
C7_BoundedRetryThenSkip ==
    /\ \A k \in DOMAIN searches :
          /\ Len(searches[k]) <= 2
          /\ Len(searches[k]) = 2 => searches[k][1] \in {"raise", "none"}
          /\ (k < idx /\ searches[k][1] \in {"raise", "none"}) => Len(searches[k]) = 2
          /\ (k < idx /\ Failed(searches[k])) => ~HasRow(all_hltb_data, game_list[k].id)
    /\ pc = "extracted" =>
          /\ error = "none"
          /\ \A k \in DOMAIN game_list : k \in DOMAIN searches /\ Len(searches[k]) >= 1

\* the extract ended after both calls for its first record failed, and the raw
\* file holds the rows found for its second record
C7_Witness ==
    /\ pc = "extracted"
    /\ Len(game_list) >= 2
    /\ Len(searches[1]) = 2 /\ Failed(searches[1])
    /\ ~HasRow(hltb_raw.rows, game_list[1].id)
    /\ HasRow(hltb_raw.rows, game_list[2].id)

\* an incremental pass has ended that was not the first pass
SecondPassDone == pc = "done" /\ ~full_run /\ now > RunTime(0)

OlderThanSixMonths(r) == r.release_date # NaN /\ r.release_date < now - SixMonths

SkipsOldPersisted ==
    \A k \in DOMAIN library :
        (HasRow(table_before.rows, library[k].id) /\ OlderThanSixMonths(library[k]))
            => ~LookedUp(library[k].id)

\* C8 as stated: a second, incremental pass over the same library and the same
\* lookup results leaves hltb_playtimes.csv equal to what the first pass left,
\* and does not look up a record that has a row and was released more than 6
\* months ago.
C8_SecondPassLeavesTableEqual ==
    SecondPassDone => (hltb_processed = table_before /\ SkipsOldPersisted)

\* C8 as amended: such a pass leaves the same library ids with the same playtime
\* per id; only the row of a record that the pass looked up again changes, and
\* only in its extract date, which becomes the time of the pass; a record that
\* has a row and was released more than 6 months ago is not looked up and its
\* row is unchanged.
C8_SecondPassKeepsPlaytimes ==
    SecondPassDone =>
        /\ hltb_processed.exists = table_before.exists
        /\ Keys(hltb_processed.rows) = Keys(table_before.rows)
        /\ \A i \in Keys(table_before.rows) :
              LET old == RowOf(table_before.rows, i)
                  new == RowOf(hltb_processed.rows, i)
              IN  /\ new.hltb_main = old.hltb_main
                  /\ new.library_release_year = old.library_release_year
                  /\ new.hltb_extract_date # old.hltb_extract_date =>
                        (new.hltb_extract_date = now /\ LookedUp(i))
        /\ SkipsOldPersisted
        /\ \A k \in DOMAIN library :
              (HasRow(table_before.rows, library[k].id) /\ OlderThanSixMonths(library[k]))
                  => RowOf(hltb_processed.rows, library[k].id)
                         = RowOf(table_before.rows, library[k].id)

\* the second pass refreshed the row of a recently released record and left alone
\* the row of a record released more than 6 months ago
C8_Witness ==
    /\ SecondPassDone /\ error = "none"
    /\ \E i \in Keys(table_before.rows) :
          RowOf(hltb_processed.rows, i) # RowOf(table_before.rows, i)
    /\ \E k \in DOMAIN library :
          /\ HasRow(table_before.rows, library[k].id)
          /\ OlderThanSixMonths(library[k])
          /\ ~LookedUp(library[k].id)

Upserted == call.fn = "upsert" /\ call.stage >= 1

\* C1: with a persisted table, the written table has exactly the library ids of
\* the persisted table and of the fresh batch, one row each; the row of an id of
\* the fresh batch is the fresh row, the row of any other id is the old row.
C1_UpsertFreshWinsOldSurvives ==
    (Upserted /\ call.processed_file.exists) =>
        LET old == call.processed_file.rows
            fresh == call.hltb_matched_df
            written == call.once.rows
        IN  /\ call.once.exists
            /\ Keys(written) = Keys(old) \cup Keys(fresh)
            /\ Len(written) = Cardinality(Keys(written))
            /\ \A i \in Keys(fresh) :
                  LET w == RowOf(written, i)
                      f == RowOf(fresh, i)
                  IN  /\ w.hltb_main = f.hltb_main
                      /\ w.hltb_extract_date = f.hltb_extract_date
                      /\ w.library_release_year = f.library_release_year
            /\ \A i \in Keys(old) \ Keys(fresh) : RowOf(written, i) = RowOf(old, i)

\* persisted {1,2,3} and fresh {2,3,4} have been upserted
C1_Witness ==
    /\ Upserted /\ call.processed_file.exists
    /\ Keys(call.processed_file.rows) = {1, 2, 3}
    /\ Keys(call.hltb_matched_df) = {2, 3, 4}
    /\ Keys(call.once.rows) = {1, 2, 3, 4}

\* C9: upserting the same fresh batch a second time, into the table the first
\* upsert wrote, writes that table again, row for row.
C9_UpsertIdempotent ==
    (call.fn = "upsert" /\ call.stage = 2) => call.twice = call.once

\* both upserts ran on a batch that replaces rows, adds rows and leaves rows
C9_Witness ==
    /\ call.fn = "upsert" /\ call.stage = 2
    /\ call.processed_file.exists
    /\ Keys(call.processed_file.rows) \cap Keys(call.hltb_matched_df) # {}
    /\ Keys(call.processed_file.rows) \ Keys(call.hltb_matched_df) # {}
    /\ Keys(call.hltb_matched_df) \ Keys(call.processed_file.rows) # {}

\* C10: without a persisted table, the written table has one row per row of the
\* fresh batch, in its order, with that row's values.
C10_FirstRunWritesFreshBatch ==
    (Upserted /\ ~call.processed_file.exists) =>
        LET fresh == call.hltb_matched_df
            written == call.once.rows
        IN  /\ call.once.exists
            /\ Len(written) = Len(fresh)
            /\ \A k \in DOMAIN fresh :
                  /\ written[k].library_id = fresh[k].library_id
                  /\ written[k].hltb_main = fresh[k].hltb_main
                  /\ written[k].hltb_extract_date = fresh[k].hltb_extract_date
                  /\ written[k].library_release_year = fresh[k].library_release_year

\* a batch of several rows has been written where no table existed
C10_Witness ==
    /\ Upserted /\ ~call.processed_file.exists
    /\ Len(call.hltb_matched_df) >= 2
    /\ Len(call.once.rows) >= 2

\* C3: the table filter_and_match_hltb_data returns holds exactly one row for
\* every library id of library_df, also for a record without any raw candidate.
C3_OneRowPerLibraryRecord ==
    (call.fn = "filter_and_match_hltb_data" /\ call.stage = 1 /\ call.out.exc = "none") =>
        \A k \in DOMAIN call.library_df :
            Cardinality({n \in DOMAIN call.out.value :
                           call.out.value[n].library_id = call.library_df[k].id}) = 1

\* C4: every library id of the match table has exactly one row in
\* igdb_with_library; a row with a matched name carries a catalog id, a row
\* without one carries no catalog data.
C4_OneRowMatchedOrNull ==
    (call.fn = "filter_and_match_igdb_data" /\ call.stage = 1) =>
        \A k \in DOMAIN call.match_df :
            LET rows == SelectSeq(call.out.igdb_with_library,
                                  LAMBDA r : r.library_id = call.match_df[k].library_id)
            IN  /\ Len(rows) = 1
                /\ rows[1].igdb_name # "NaN" => rows[1].id # NaN
                /\ rows[1].igdb_name = "NaN" =>
                      /\ rows[1].id = NaN
                      /\ rows[1].name_igdb = "NaN"
                      /\ rows[1].category = NaN
                      /\ rows[1].first_release_date = NaN

\* C11: a pass with full_run=True looks up every library record whatever the
\* table and the release dates are; hltb_playtimes.csv is gone when the extract
\* ends, and after the transform every row of the table comes from this pass's
\* batch: its id is in the raw batch and its extract date is the time of the pass.
C11_FullRunReplacesTable ==
    /\ (full_run /\ pc \in {"extracted", "done"}) =>
          \A i \in LibraryIds : LookedUp(i)
    /\ (full_run /\ pc = "extracted") => ~hltb_processed.exists
    /\ (full_run /\ pc = "done") =>
          \A k \in DOMAIN hltb_processed.rows :
              /\ hltb_processed.rows[k].hltb_extract_date = now
              /\ HasRow(hltb_raw.rows, hltb_processed.rows[k].library_id)

\* a full pass over an existing table has ended: it looked up a record that has
\* a row and was released more than 6 months ago, and wrote a table that holds
\* none of the earlier rows
C11_Witness ==
    /\ full_run /\ pc = "done" /\ error = "none"
    /\ table_before.exists /\ table_before.rows # <<>>
    /\ hltb_processed.exists /\ hltb_processed.rows # <<>>
    /\ \E k \in DOMAIN library :
          /\ HasRow(table_before.rows, library[k].id)
          /\ OlderThanSixMonths(library[k])
          /\ LookedUp(library[k].id)
    /\ \A a \in DOMAIN table_before.rows : \A b \in DOMAIN hltb_processed.rows :
          table_before.rows[a] # hltb_processed.rows[b]

\* the reference names of a call, and the subset the candidate filter keeps for a
\* query: the names with the query's first letter, or all when there is none
ReferenceNames == {n \in SeqToSet(call.igdb_names) : ~n.isna}

SameFirstLetter(query) ==
    {g \in ReferenceNames : Lower(g.chars[1]) = Lower(query.chars[1])}

CandidateSubset(query) ==
    IF SameFirstLetter(query) = {} THEN ReferenceNames ELSE SameFirstLetter(query)

Score(query, g) == Ratio(FullProcess(query.chars), FullProcess(g.chars))

Matched(call_stage) == call.fn = "igdb_library_fuzzy_matching" /\ call.stage >= call_stage

\* C12: igdb_library_fuzzy_matching returns one row per library record, in the
\* order of the library; for a named record the row holds a candidate of the
\* filtered subset with the highest score if that score reaches the threshold,
\* and otherwise a null name with the highest score (0 without candidates).
C12_BestCandidateAcceptedIffAtThreshold ==
    Matched(1) =>
        /\ Len(call.match_df) = Len(call.library_df)
        /\ \A k \in DOMAIN call.library_df :
              LET row == call.library_df[k]
                  m == call.match_df[k]
                  subset == CandidateSubset(row.name)
                  top == IF subset = {} THEN 0
                         ELSE MaxOf({Score(row.name, g) : g \in subset})
              IN  /\ m.library_id = row.id
                  /\ ~row.name.isna =>
                        /\ m.similarity_score = top
                        /\ (~m.igdb_name.isna) <=> (subset # {} /\ top >= call.threshold)
                        /\ ~m.igdb_name.isna =>
                              /\ m.igdb_name \in subset
                              /\ Score(row.name, m.igdb_name) = top

\* one record was accepted with a score equal to the threshold, another was kept
\* with a null name and the score of its best candidate
C12_Witness ==
    /\ Matched(1)
    /\ \E k \in DOMAIN call.match_df :
          /\ ~call.match_df[k].igdb_name.isna
          /\ call.match_df[k].similarity_score = call.threshold
          /\ Cardinality(CandidateSubset(call.library_df[k].name)) > 1
    /\ \E k \in DOMAIN call.match_df :
          /\ ~call.library_df[k].name.isna
          /\ call.match_df[k].igdb_name.isna
          /\ call.match_df[k].similarity_score > 0

\* C13: for a named record the scorer is given exactly the reference names whose
\* first character is the query's first character, whatever the case, and the
\* whole reference set when there is no such name; it is given no empty list
\* while there are reference names.
C13_CandidatesShareFirstLetterOrAll ==
    Matched(1) =>
        \A k \in DOMAIN call.library_df :
            LET query == call.library_df[k].name
                given == SeqToSet(call.scored[k].choices)
            IN  ~query.isna =>
                  /\ call.scored[k].called
                  /\ SameFirstLetter(query) # {} => given = SameFirstLetter(query)
                  /\ SameFirstLetter(query) = {} => given = ReferenceNames
                  /\ ReferenceNames # {} => given # {}

\* one query was scored against the names with its first letter in the other
\* case only, another against the full reference set for want of such names
C13_Witness ==
    /\ Matched(1)
    /\ \E k \in DOMAIN call.library_df :
          LET query == call.library_df[k].name
          IN  /\ ~query.isna
              /\ SameFirstLetter(query) # {}
              /\ SameFirstLetter(query) # ReferenceNames
              /\ \A g \in SameFirstLetter(query) : g.chars[1] # query.chars[1]
              /\ SeqToSet(call.scored[k].choices) = SameFirstLetter(query)
    /\ \E k \in DOMAIN call.library_df :
          LET query == call.library_df[k].name
          IN  /\ ~query.isna
              /\ SameFirstLetter(query) = {}
              /\ ReferenceNames # {}
              /\ SeqToSet(call.scored[k].choices) = ReferenceNames

\* C14: a library record whose name field is empty is read with a missing name;
\* its row has similarity_score 0 and a null igdb_name, and process.extractOne
\* is not called for it.
C14_MissingNameScoresZeroUnscored ==
    Matched(1) =>
        \A k \in DOMAIN call.library_file :
            call.library_file[k].name.chars = <<>> =>
                /\ call.match_df[k].library_id = call.library_file[k].id
                /\ call.match_df[k].similarity_score = 0
                /\ call.match_df[k].igdb_name.isna
                /\ ~call.scored[k].called

\* a record without a name was matched with threshold 0 against reference names
\* that include one the processor empties, next to a record that was accepted
C14_Witness ==
    /\ Matched(1)
    /\ call.threshold = 0
    /\ Name(<<"!">>) \in ReferenceNames
    /\ \E k \in DOMAIN call.library_file :
          /\ call.library_file[k].name.chars = <<>>
          /\ call.match_df[k].igdb_name.isna
    /\ \E k \in DOMAIN call.match_df : ~call.match_df[k].igdb_name.isna

AcceptedIds(match_df) ==
    {match_df[k].library_id : k \in {j \in DOMAIN match_df : ~match_df[j].igdb_name.isna}}

\* C20: for the same library and the same reference names, the records accepted
\* with a threshold are among the records accepted with any lower threshold.
C20_HigherThresholdAcceptsSubset ==
    (Matched(2) /\ call.threshold <= call.threshold2) =>
        AcceptedIds(call.match_df2) \subseteq AcceptedIds(call.match_df)

\* the higher threshold lost a record that the lower one accepted and kept another
C20_Witness ==
    /\ Matched(2) /\ call.threshold < call.threshold2
    /\ AcceptedIds(call.match_df2) # {}
    /\ AcceptedIds(call.match_df2) # AcceptedIds(call.match_df)

\* C15: when writing the report of transform_hltb_data fails, the pass goes on:
\* hltb_playtimes.csv is written and holds the rows matched in this pass.
C15_ReportFailureKeepsUpsert ==
    (pc = "done" /\ error = "OSError") =>
        /\ hltb_processed.exists
        /\ \E k \in DOMAIN hltb_processed.rows :
              hltb_processed.rows[k].hltb_extract_date = now

\* the report of either pass has been made
ReportedHltb == call.fn = "create_comprehensive_matching_report" /\ call.stage = 1

ReportedIgdb == call.fn = "create_comprehensive_igdb_matching_report" /\ call.stage = 1

\* the joined result, the no-match list and its count in the summary
JoinedResult == IF ReportedHltb THEN call.hltb_with_library_df ELSE call.igdb_with_library

NoMatchList ==
    IF ReportedHltb THEN call.report.no_hltb_records ELSE call.report.no_igdb_records

NoMatchCount ==
    IF ReportedHltb THEN call.report.summary.no_hltb_records
    ELSE call.report.summary.no_igdb_records

\* the library ids that are keys of the joined result
JoinedLibraryIds == {JoinedResult[k].library_id : k \in DOMAIN JoinedResult} \ {NaN}

\* the number of entries the no-match list holds for a library id
NoMatchEntries(i) == Cardinality({k \in DOMAIN NoMatchList : NoMatchList[k].library_id = i})

\* C17: in either report the no-match list holds exactly one entry for each id of
\* the library given to the report that is no key of the joined result, no entry
\* for any other id, and the summary's no-records count is the length of the list.
C17_NoMatchListIsLibraryMinusJoined ==
    (ReportedHltb \/ ReportedIgdb) =>
        /\ \A k \in DOMAIN call.library_df :
              NoMatchEntries(call.library_df[k].id) =
                  IF call.library_df[k].id \in JoinedLibraryIds THEN 0 ELSE 1
        /\ \A k \in DOMAIN NoMatchList :
              \E j \in DOMAIN call.library_df :
                  call.library_df[j].id = NoMatchList[k].library_id
        /\ NoMatchCount = Len(NoMatchList)

\* a playtime report where one record of the library was found and another was not
C17_Witness ==
    /\ ReportedHltb
    /\ Len(NoMatchList) = 1
    /\ Len(call.library_df) > 1
    /\ JoinedLibraryIds # {}
    /\ \E k \in DOMAIN JoinedResult : JoinedResult[k].library_id = NaN

\* the library ids listed as low-similarity
LowSimilarityIds ==
    {call.report.low_similarity_games[k].library_id :
        k \in DOMAIN call.report.low_similarity_games}

\* the rows of the joined result that belong to a library id
JoinedRows(i) == SelectSeq(JoinedResult, LAMBDA row : row.library_id = i)

\* C18: a record is listed as low-similarity exactly when it has a match (a
\* non-null candidate) whose similarity is below the quality threshold, 95 in the
\* catalog report and 0.75 in the playtime report; a record without an accepted
\* match is never listed.
C18_LowSimilarityIffMatchedBelowQuality ==
    /\ ReportedIgdb =>
          \A k \in DOMAIN call.match_df :
              call.match_df[k].library_id \in LowSimilarityIds <=>
                  /\ call.match_df[k].igdb_name # "NaN"
                  /\ call.match_df[k].similarity_score < LowSimilarityIgdb
    /\ ReportedHltb =>
          \A k \in DOMAIN call.library_df :
              call.library_df[k].id \in LowSimilarityIds <=>
                  /\ call.library_df[k].id \in JoinedLibraryIds
                  /\ \A j \in DOMAIN JoinedRows(call.library_df[k].id) :
                        JoinedRows(call.library_df[k].id)[j].similarity < LowSimilarityHltb

\* C16: when the playtime pass fails with FileNotFoundError from
\* load_latest_hltb_raw_data, the output of the library pass stays written and
\* the catalog pass, if requested, still runs.
C16_PlaytimeFailureLeavesOtherPasses ==
    (call.fn = "run_data_pipeline" /\ call.step = "end"
       /\ call.exception = "FileNotFoundError") =>
        /\ call.library => call.library_written
        /\ call.igdb => call.igdb_written

\* filter_and_match_hltb_data has returned the matched batch
MatchedBatch == call.fn = "filter_and_match_hltb_data" /\ call.stage = 1 /\ call.out.exc = "none"

\* the similarities of the raw candidates of a library id
CandidateSimilarities(i) ==
    {call.hltb_raw_df[k].similarity :
        k \in {j \in DOMAIN call.hltb_raw_df : call.hltb_raw_df[j].library_id = i}}

\* the similarities a search returns
SimilarityScale == {g.similarity : g \in {GameA, GameB, GameC, GameD}}

SelectedHltb ==
    call.fn = "select_best_hltb_match" /\ call.stage = 1 /\ Len(call.group) > 1

\* the distance of candidate k's release year from the library release year
YearDistance(k) == Abs(call.group[k].release_year - call.group[1].library_release_year)

\* the candidates whose distance is known
KnownYears ==
    {k \in DOMAIN call.group : /\ call.group[k].release_year # NaN
                               /\ call.group[1].library_release_year # NaN}

ExactYears == {k \in KnownYears : YearDistance(k) = 0}

ClosestYears == {k \in KnownYears : \A j \in KnownYears : YearDistance(k) <= YearDistance(j)}

\* the first position of a set of positions
First(S) == CHOOSE k \in S : \A j \in S : k <= j

\* C21: on a group of several candidates select_best_hltb_match returns the first
\* candidate whose release year equals the library release year if there is one,
\* and otherwise the first of the candidates at the least year distance.
C21_ExactYearElseClosestFirstOnTies ==
    (SelectedHltb /\ KnownYears # {}) =>
        /\ call.out.exc = "none"
        /\ call.out.value =
              <<call.group[IF ExactYears # {} THEN First(ExactYears)
                           ELSE First(ClosestYears)]>>

\* no exact year, and two candidates one year off on either side: the first wins
C21_Witness ==
    /\ SelectedHltb /\ ExactYears = {}
    /\ Cardinality(ClosestYears) > 1
    /\ \E j, k \in ClosestYears :
          call.group[j].release_year < call.group[k].release_year
    /\ First(ClosestYears) > 1
    /\ call.out.value = <<call.group[First(ClosestYears)]>>

\* select_best_igdb_match has been applied to a group of several catalog rows
SelectedIgdb ==
    call.fn = "select_best_igdb_match" /\ call.stage = 1 /\ Len(call.group) > 1

\* the row select_best_igdb_match returned
SelectedRow == call.out.value[1]

\* the group comes from the tables of the pipeline: the library columns are those
\* transform_library_data writes, release_year is not among them
FromLibraryTransform == "release_year" \notin DOMAIN call.group[1]

\* a catalog row released within a year of the library release year of the record
WithinOneYear(r) ==
    /\ r.first_release_date # NaN
    /\ r.library_release_year # NaN
    /\ Abs(ReleaseYear(r.first_release_date) - r.library_release_year) <= 1

\* C22: for a library record written by transform_library_data with a known
\* release year and several catalog rows under the matched name, if one of the
\* rows was released within a year of the library release year, so was the row
\* select_best_igdb_match returns.
C22_YearStepKeepsRowsWithinOneYear ==
    (SelectedIgdb /\ FromLibraryTransform
       /\ \E k \in DOMAIN call.group : WithinOneYear(call.group[k])) =>
        WithinOneYear(SelectedRow)

\* the library year the year step reads, and whether the step can use it
LibraryYearRead == RowGet(call.group[1], "release_year")

YearUsable == LibraryYearRead # NaN /\ LibraryYearRead # Unparseable

\* the positions of the rows the year step finds near the library year
NearYear ==
    {k \in DOMAIN call.group :
        /\ YearUsable
        /\ call.group[k].first_release_date # NaN
        /\ Abs(DatetimeYear(call.group[k].first_release_date) - LibraryYearRead) <= 1}

\* the positions of the rows that survive the year step
YearSurvivors == IF NearYear # {} THEN NearYear ELSE DOMAIN call.group

MainGameSurvivors == {k \in YearSurvivors : call.group[k].category = 0}

\* the positions of the rows that survive the category step
CategorySurvivors ==
    IF Cardinality(YearSurvivors) > 1 /\ MainGameSurvivors # {}
    THEN MainGameSurvivors ELSE YearSurvivors

\* the rows of a set of positions with the fewest missing fields
FewestNulls(S) ==
    {k \in S : \A j \in S : NanCount(call.group[k]) <= NanCount(call.group[j])}

\* C23: when several rows survive the year step and one of them is a main game
\* (category 0), the returned row is a main game; when no survivor is a main
\* game every survivor stays a candidate, so the returned row is the first of the
\* survivors with the fewest missing fields.
C23_MainGamePreferred ==
    SelectedIgdb =>
        /\ (Cardinality(YearSurvivors) > 1 /\ MainGameSurvivors # {}) =>
              SelectedRow.category = 0
        /\ MainGameSurvivors = {} =>
              SelectedRow = call.group[First(FewestNulls(YearSurvivors))]

\* a main game is returned although an earlier survivor with fewer missing fields
\* is none
C23_Witness ==
    /\ SelectedIgdb
    /\ Cardinality(YearSurvivors) > 1
    /\ SelectedRow.category = 0
    /\ \E k \in YearSurvivors :
          /\ call.group[k].category # 0
          /\ k < SelectedRow.id
          /\ NanCount(call.group[k]) < NanCount(SelectedRow)

\* C24: the returned row is the first, in the order of the group, of the rows
\* left after the year and category steps that have the fewest missing fields;
\* being a function of the ordered group, it is the same on every run.
C24_FewestNullsFirstOnTies ==
    SelectedIgdb =>
        SelectedRow = call.group[First(FewestNulls(CategorySurvivors))]

\* two rows left with the same least number of missing fields, behind a first
\* row that lacks more: the earlier of the two is returned
C24_Witness ==
    /\ SelectedIgdb
    /\ Cardinality(FewestNulls(CategorySurvivors)) > 1
    /\ \E k \in CategorySurvivors : k \notin FewestNulls(CategorySurvivors)
    /\ First(FewestNulls(CategorySurvivors)) > 1
    /\ SelectedRow.id = First(FewestNulls(CategorySurvivors))

\* select_best_igdb_match has been applied to a group of any size
ReturnedIgdb == call.fn = "select_best_igdb_match" /\ call.stage = 1

\* the positions left by the category step when it starts from all the rows
MainGamesOfAll ==
    IF \E k \in DOMAIN call.group : call.group[k].category = 0
    THEN {k \in DOMAIN call.group : call.group[k].category = 0}
    ELSE DOMAIN call.group

\* C25: select_best_igdb_match returns exactly one row and it is a row of the
\* group; a year step that finds no row leaves all rows to the later steps, and a
\* single row left by a step is returned whatever the later steps would prefer.
C25_FallThroughAndEarlyStop ==
    ReturnedIgdb =>
        /\ Len(call.out.value) = 1
        /\ \E k \in DOMAIN call.group : SelectedRow = call.group[k]
        /\ (Len(call.group) > 1 /\ NearYear = {}) =>
              SelectedRow = call.group[First(FewestNulls(MainGamesOfAll))]
        /\ \A k \in DOMAIN call.group :
              (YearSurvivors = {k} \/ CategorySurvivors = {k}) => SelectedRow = call.group[k]

\* the year step leaves one row, which is no main game and comes after a main
\* game with no more missing fields, and it is returned
C25_Witness ==
    /\ ReturnedIgdb /\ Len(call.group) > 1
    /\ YearSurvivors = {SelectedRow.id}
    /\ SelectedRow.category # 0
    /\ \E k \in DOMAIN call.group :
          /\ k < SelectedRow.id
          /\ call.group[k].category = 0
          /\ NanCount(call.group[k]) <= NanCount(SelectedRow)

\* a group of several candidates whose year data is missing or does not convert
MissingYearData ==
    /\ Len(call.group) > 1
    /\ IF call.fn = "select_best_hltb_match"
       THEN \/ call.group[1].library_release_year = NaN
            \/ \E k \in DOMAIN call.group : call.group[k].release_year = NaN
       ELSE \/ ~YearUsable
            \/ \E k \in DOMAIN call.group : call.group[k].first_release_date = NaN

\* C26: with missing or unconvertible year data on a group of several candidates
\* neither select_best_igdb_match nor select_best_hltb_match raises, and each
\* returns exactly one candidate of the group.
C26_MissingYearNeverRaises ==
    (call.fn \in {"select_best_hltb_match", "select_best_igdb_match"}
       /\ call.stage = 1 /\ MissingYearData) =>
        /\ call.out.exc = "none"
        /\ Len(call.out.value) = 1
        /\ \E k \in DOMAIN call.group : call.out.value[1] = call.group[k]

\* the count of successful matches a report logs: "Successful matches" in the
\* playtime report, "High confidence matches (>=95)" in the catalog report
SuccessfulMatches ==
    IF ReportedHltb THEN call.report.summary.successful_matches
    ELSE call.report.summary.high_confidence_matches

LowSimilarityCount == call.report.summary.low_similarity

EmptyIncrementalPass ==
    /\ pc = "done" /\ ~full_run
    /\ table_before.exists
    /\ game_list = <<>>

\* C28: when the incremental selection yields no library record, extract_hltb_data
\* followed by transform_hltb_data ends without raising and the persisted table is
\* what it was before the pass.
C28_EmptyBatchCompletesUnchanged ==
    EmptyIncrementalPass => (error = "none" /\ hltb_processed = table_before)

\* the library ids of the rows of hltb_playtimes.csv
PersistedIds == Keys(hltb_processed.rows)

\* C29: in a step of an incremental pass every library id of hltb_playtimes.csv
\* stays in it, and the row of an id for which the pass found nothing (both calls
\* failed, or no results) stays as it was.
C29_IncrementalNeverShrinks ==
    [][~full_run' =>
          \A k \in DOMAIN hltb_processed.rows :
              LET i == hltb_processed.rows[k].library_id
              IN  /\ HasRow(hltb_processed'.rows, i)
                  /\ ~HasRow(hltb_raw'.rows, i) =>
                        RowOf(hltb_processed'.rows, i) = hltb_processed.rows[k]]_vars

\* an incremental pass has upserted the fresh row of one record while the record
\* whose two calls failed kept its row
C29_Witness ==
    /\ pc = "done" /\ ~full_run /\ error = "none"
    /\ \E k \in DOMAIN game_list :
          /\ Failed(searches[k])
          /\ HasRow(table_before.rows, game_list[k].id)
          /\ RowOf(hltb_processed.rows, game_list[k].id)
                = RowOf(table_before.rows, game_list[k].id)
    /\ \E k \in DOMAIN hltb_processed.rows :
          /\ hltb_processed.rows[k].hltb_extract_date = now
          /\ HasRow(table_before.rows, hltb_processed.rows[k].library_id)

\* the sync of an endpoint file has run both its steps
Synced == call.fn = "extract_and_update_igdb_data" /\ call.step = "done"

\* the row of record i in a table
EndpointRowOf(df, i) == df[CHOOSE k \in DOMAIN df : df[k].id = i]

\* C30: after the sync of an existing endpoint file every record the file already
\* held whose upstream updated_at is later than the file's greatest updated_at
\* before the sync has its row brought to the upstream one, also when records
\* created since were appended first.
C30_UpdatedRecordsRefreshed ==
    Synced =>
        \A k \in DOMAIN call.file_before :
            LET i == call.file_before[k].id
            IN  call.upstream[i].updated_at > ColumnMax(call.file_before, "updated_at") =>
                    EndpointRowOf(call.endpoint_df, i) = call.upstream[i]

====
